---- MODULE Spec2Model ----
(***************************************************************************)
(* Model of the subscription analytics dashboard script (src/app.py).      *)
(*                                                                         *)
(* The script is one handler: Streamlit runs it from the first line to the *)
(* last on every widget change.  A data frame is a sequence of rows, a row *)
(* a record keyed by column name.  Rerun is the script as it runs          *)
(* (specification Spec); EvalViews applies the filter expression and every *)
(* view expression of the script to a frame and criteria drawn from        *)
(* bounded sets, each expression on its own (specification SpecViews).     *)
(***************************************************************************)
EXTENDS Integers, Sequences, FiniteSets, TLC

VARIABLES df, plan_types, meal_types, price_slider, filtered,
          kpi, by_month, meal_freq_counts, top10, cohort,
          revenue_by_plan, plan_freq, rev_by_dur, pivot2, err

vars == <<df, plan_types, meal_types, price_slider, filtered,
          kpi, by_month, meal_freq_counts, top10, cohort,
          revenue_by_plan, plan_freq, rev_by_dur, pivot2, err>>

(***************************************************************************)
(* Bounds of the model.                                                    *)
(***************************************************************************)
MaxRows == 2
NegativeDays == 2
MaxDuration == 101

(***************************************************************************)
(* Column values the rows of PS_Data.xlsx are drawn from.                  *)
(***************************************************************************)
CustomerIds == {101, 102}
CustomerName == [c \in CustomerIds |-> IF c = 101 THEN "Asha" ELSE "Ravi"]
PlanTypes == {"Weekly", "Monthly"}
MealFrequencies == {"Lunch", "Lunch+Dinner"}
StartDates == {<<2023, 12, 20>>, <<2024, 1, 5>>}
DurationDays == {6, 7, 100}
TotalPrices == {1000, 1500}
PriceBounds == {1000, 1500}

(***************************************************************************)
(* Markers: a missing value, a view the run did not reach, a raised error. *)
(***************************************************************************)
NaN == "NaN"
NotComputed == [state |-> "not computed"]
Computed(v) == [value |-> v]
Raised(e) == [raised |-> e]

(***************************************************************************)
(* Strings that the script orders are sequences of character codes,        *)
(* compared as Python compares str.                                        *)
(***************************************************************************)
Digit(n) == 48 + n
Hyphen == <<45>>

RECURSIVE StrLess(_, _)
StrLess(a, b) ==
    IF a = <<>> THEN b /= <<>>
    ELSE IF b = <<>> THEN FALSE
    ELSE IF Head(a) /= Head(b) THEN Head(a) < Head(b)
    ELSE StrLess(Tail(a), Tail(b))

\* Timestamps are <<year, month, day>>; min() over them is chronological.
DateLess(a, b) ==
    \/ a[1] < b[1]
    \/ a[1] = b[1] /\ a[2] < b[2]
    \/ a[1] = b[1] /\ a[2] = b[2] /\ a[3] < b[3]

\* pd.to_datetime(x).dt.to_period('M').astype(str): "YYYY-MM", zero padded.
ToPeriodM(date) ==
    <<Digit(date[1] \div 1000), Digit((date[1] \div 100) % 10),
      Digit((date[1] \div 10) % 10), Digit(date[1] % 10)>>
    \o Hyphen \o <<Digit(date[2] \div 10), Digit(date[2] % 10)>>

\* One row of the frame load_data returns; Month is derived from Start_Date.
Row(c, p, m, s, d, t) ==
    [Customer_ID |-> c, Customer_Name |-> CustomerName[c], Plan_Type |-> p,
     Meal_Frequency |-> m, Start_Date |-> s, Duration_Days |-> d,
     Total_Price |-> t, Month |-> ToPeriodM(s)]

(***************************************************************************)
(* Frame primitives.                                                       *)
(***************************************************************************)
Unique(frame, col) == {frame[i][col] : i \in DOMAIN frame}

RECURSIVE SumCol(_, _)
SumCol(frame, col) ==
    IF frame = <<>> THEN 0 ELSE Head(frame)[col] + SumCol(Tail(frame), col)

Rows(frame, col, v) == SelectSeq(frame, LAMBDA r : r[col] = v)

MinOf(S) == CHOOSE x \in S : \A y \in S : x <= y
MaxOf(S) == CHOOSE x \in S : \A y \in S : y <= x
MinDate(S) == CHOOSE x \in S : \A y \in S : x = y \/ DateLess(x, y)

\* The keys of a groupby, in the order groupby(sort=True) emits them.
RECURSIVE SortedStrs(_)
SortedStrs(S) ==
    IF S = {} THEN <<>>
    ELSE LET k == CHOOSE x \in S : \A y \in S : x = y \/ StrLess(x, y)
         IN  <<k>> \o SortedStrs(S \ {k})

RECURSIVE SortedInts(_)
SortedInts(S) ==
    IF S = {} THEN <<>>
    ELSE LET k == CHOOSE x \in S : \A y \in S : x <= y
         IN  <<k>> \o SortedInts(S \ {k})

(***************************************************************************)
(* Filter (lines 45-49).                                                   *)
(***************************************************************************)
\* Variant: the upper bound excluded.
BetweenRightOpen(x, left, right) == left <= x /\ x < right

Between(x, left, right) == left <= x /\ x <= right

Filter(frame, pts, mts, ps) ==
    SelectSeq(frame, LAMBDA r : /\ r.Plan_Type \in pts
                                /\ r.Meal_Frequency \in mts
                                /\ Between(r.Total_Price, ps[1], ps[2]))

(***************************************************************************)
(* Macro tab (lines 64-107).                                               *)
(***************************************************************************)
\* The mean is the exact quotient num/den; of no rows it is NaN.
Mean(frame, col) ==
    IF frame = <<>> THEN [nan |-> TRUE]
    ELSE [num |-> SumCol(frame, col), den |-> Len(frame)]

Kpi(frame) ==
    [subscribers |-> Cardinality(Unique(frame, "Customer_ID")),
     revenue |-> SumCol(frame, "Total_Price"),
     mean |-> Mean(frame, "Total_Price")]

\* Variant: groupby(sort=False), the keys in order of first appearance.
RECURSIVE MonthKeysByAppearance(_)
MonthKeysByAppearance(frame) ==
    IF frame = <<>> THEN <<>>
    ELSE <<Head(frame).Month>> \o
         MonthKeysByAppearance(
             SelectSeq(Tail(frame), LAMBDA r : r.Month /= Head(frame).Month))

MonthKeys(frame) == SortedStrs(Unique(frame, "Month"))

ByMonth(frame) ==
    LET keys == MonthKeys(frame)
    IN  [i \in DOMAIN keys |->
            LET g == Rows(frame, "Month", keys[i])
            IN  [Month |-> keys[i],
                 Unique_Customers |-> Cardinality(Unique(g, "Customer_ID")),
                 Total_Revenue |-> SumCol(g, "Total_Price")]]

\* value_counts: a count for every value that occurs.
ValueCounts(frame, col) ==
    [v \in Unique(frame, col) |-> Len(Rows(frame, col, v))]

(***************************************************************************)
(* Micro tab (lines 144-198).                                              *)
(***************************************************************************)
TopN == 10

\* groupby(['Customer_ID', 'Customer_Name']): one group per (id, name) pair,
\* the groups in key order.
GroupPairs(frame) ==
    {<<frame[i].Customer_ID, frame[i].Customer_Name>> : i \in DOMAIN frame}

PairRows(frame, pair) ==
    SelectSeq(frame, LAMBDA r : <<r.Customer_ID, r.Customer_Name>> = pair)

RECURSIVE SortedPairs(_)
SortedPairs(S) ==
    IF S = {} THEN <<>>
    ELSE LET k == CHOOSE x \in S : \A y \in S : x[1] <= y[1]
         IN  <<k>> \o SortedPairs(S \ {k})

\* .agg(Total_Spend=('Total_Price', 'sum')): the only column is Total_Spend.
SpendByCustomer(frame) ==
    LET keys == SortedPairs(GroupPairs(frame))
    IN  [i \in DOMAIN keys |->
            [Customer_ID |-> keys[i][1], Customer_Name |-> keys[i][2],
             Total_Spend |-> SumCol(PairRows(frame, keys[i]), "Total_Price")]]

SpendLabels == {"Customer_ID", "Customer_Name", "Total_Spend"}

\* The row that sorts first in descending order of col: the first maximum.
FirstMax(table, col) ==
    CHOOSE i \in DOMAIN table :
        /\ \A j \in DOMAIN table : table[j][col] <= table[i][col]
        /\ \A j \in 1..(i - 1) : table[j][col] < table[i][col]

RECURSIVE SortDesc(_, _)
SortDesc(table, col) ==
    IF table = <<>> THEN <<>>
    ELSE LET i == FirstMax(table, col)
         IN  <<table[i]>> \o
             SortDesc(SubSeq(table, 1, i - 1) \o SubSeq(table, i + 1, Len(table)), col)

\* sort_values(by, ascending=False): by must name a column or an index level.
SortValues(table, by, labels) ==
    IF by \notin labels THEN Raised("KeyError") ELSE SortDesc(table, by)

HeadRows(table, n) == SubSeq(table, 1, IF Len(table) < n THEN Len(table) ELSE n)

SortKey == "Total_Spend (INR)"

Top10(frame) ==
    LET sorted == SortValues(SpendByCustomer(frame), SortKey, SpendLabels)
    IN  IF sorted = Raised("KeyError") THEN sorted ELSE HeadRows(sorted, TopN)

\* first = df.groupby('Customer_ID')['Start_Date'].min(), with CohortMonth.
First(frame) ==
    LET keys == SortedInts(Unique(frame, "Customer_ID"))
    IN  [i \in DOMAIN keys |->
            LET start == MinDate(Unique(Rows(frame, "Customer_ID", keys[i]), "Start_Date"))
            IN  [Customer_ID |-> keys[i], Start_Date |-> start,
                 CohortMonth |-> ToPeriodM(start)]]

Cohort(frame) ==
    LET first == First(frame)
        keys == SortedStrs(Unique(first, "CohortMonth"))
    IN  [i \in DOMAIN keys |->
            [CohortMonth |-> keys[i],
             New_Customers |-> Len(Rows(first, "CohortMonth", keys[i]))]]

(***************************************************************************)
(* Plan and revenue tab (lines 208-296).                                   *)
(***************************************************************************)
RevenueByPlan(frame) ==
    [p \in Unique(frame, "Plan_Type") |->
        SumCol(Rows(frame, "Plan_Type", p), "Total_Price")]

CellRows(frame, rowcol, colcol, cell) ==
    SelectSeq(frame, LAMBDA r : r[rowcol] = cell[1] /\ r[colcol] = cell[2])

\* Variant: only the (row, column) pairs that occur get a cell.
CrosstabObservedPairs(frame, rowcol, colcol) ==
    [cell \in {<<frame[i][rowcol], frame[i][colcol]>> : i \in DOMAIN frame} |->
        Len(CellRows(frame, rowcol, colcol, cell))]

\* pd.crosstab: a count for every (row label, column label) of the frame.
Crosstab(frame, rowcol, colcol) ==
    [cell \in Unique(frame, rowcol) \X Unique(frame, colcol) |->
        Len(CellRows(frame, rowcol, colcol, cell))]

bins == <<0, 7, 15, 31, 100>>
labels == <<"0-7 days", "8-15 days", "16-30 days", "31+ days">>

\* Variant: right=True, bin i is (bins[i], bins[i+1]].
CutRightClosed(x) ==
    IF \E i \in DOMAIN labels : bins[i] < x /\ x <= bins[i + 1]
    THEN labels[CHOOSE i \in DOMAIN labels : bins[i] < x /\ x <= bins[i + 1]]
    ELSE NaN

\* pd.cut(x, bins, labels, right=False): bin i is [bins[i], bins[i+1]).
Cut(x) ==
    IF \E i \in DOMAIN labels : bins[i] <= x /\ x < bins[i + 1]
    THEN labels[CHOOSE i \in DOMAIN labels : bins[i] <= x /\ x < bins[i + 1]]
    ELSE NaN

\* filtered['Duration_Category'] = pd.cut(filtered['Duration_Days'], ...)
WithDurationCategory(frame) ==
    [i \in DOMAIN frame |->
        [c \in DOMAIN frame[i] \cup {"Duration_Category"} |->
            IF c = "Duration_Category" THEN Cut(frame[i].Duration_Days)
            ELSE frame[i][c]]]

\* groupby on the categorical column: rows whose category is missing are
\* left out; observed=False (the default the call relies on) keeps a group
\* for every label.
observed == FALSE

RevByDur(frame, obs) ==
    LET seen == Unique(frame, "Duration_Category") \ {NaN}
        keys == IF obs THEN seen ELSE {labels[i] : i \in DOMAIN labels}
    IN  [c \in keys |-> SumCol(Rows(frame, "Duration_Category", c), "Total_Price")]

\* pd.pivot_table(values='Customer_ID', aggfunc='count', fill_value=0)
PivotCount(frame, rowcol, colcol, fill_value) ==
    LET groups == {<<frame[i][rowcol], frame[i][colcol]>> : i \in DOMAIN frame}
    IN  [cell \in Unique(frame, rowcol) \X Unique(frame, colcol) |->
            IF cell \in groups THEN Len(CellRows(frame, rowcol, colcol, cell))
            ELSE fill_value]

(***************************************************************************)
(* The frames load_data can return.  Each family varies the columns one    *)
(* group of views reads and holds the others at one value.                 *)
(***************************************************************************)
SeqUpTo(S, n) == UNION {[1..k -> S] : k \in 0..n}

FilterRows ==
    {Row(101, p, m, <<2024, 1, 5>>, 7, t) :
        p \in PlanTypes, m \in MealFrequencies, t \in TotalPrices}

CustomerRows ==
    {Row(c, "Weekly", "Lunch", s, 7, t) :
        c \in CustomerIds, s \in StartDates, t \in TotalPrices}

DurationRows ==
    {Row(c, "Weekly", "Lunch", <<2024, 1, 5>>, d, 1000) :
        c \in CustomerIds, d \in DurationDays}

RangeRows ==
    {Row(101, "Weekly", "Lunch", <<2024, 1, 5>>, d, 1000) :
        d \in (0 - NegativeDays)..MaxDuration}

Frames ==
    SeqUpTo(FilterRows, MaxRows) \cup SeqUpTo(CustomerRows, MaxRows)
        \cup SeqUpTo(DurationRows, MaxRows) \cup SeqUpTo(RangeRows, 1)

(***************************************************************************)
(* Sidebar widgets (lines 27-41).                                          *)
(***************************************************************************)
SliderStep == 500

\* The values a slider over [lo, hi] can return: lo plus whole steps, and hi
\* (lo alone when the column holds one price).
SliderValues(lo, hi) ==
    {v \in lo..hi : (v - lo) % SliderStep = 0 \/ v = hi}

SliderRanges(frame) ==
    LET min_price == MinOf(Unique(frame, "Total_Price"))
        max_price == MaxOf(Unique(frame, "Total_Price"))
        values == SliderValues(min_price, max_price)
    IN  {ps \in values \X values : ps[1] <= ps[2]}

\* The widget values the session holds: before the first run, the defaults
\* (every option selected, the whole price range).
Defaults(frame) ==
    <<Unique(frame, "Plan_Type"), Unique(frame, "Meal_Frequency"),
      <<MinOf(Unique(frame, "Total_Price")), MaxOf(Unique(frame, "Total_Price"))>>>>

\* One interaction selects or deselects one option of a multiselect.
Toggles(selection, options) ==
    {(selection \ {o}) \cup ({o} \ selection) : o \in options}

\* The widget values of a run: those of the run before with at most one
\* widget changed (the file uploader triggers a run that changes none).
WidgetStates(plans, meals, ranges) ==
    {<<plan_types, meal_types, price_slider>>}
        \cup {<<pts, meal_types, price_slider>> : pts \in Toggles(plan_types, plans)}
        \cup {<<plan_types, mts, price_slider>> : mts \in Toggles(meal_types, meals)}
        \cup {<<plan_types, meal_types, ps>> : ps \in ranges}

\* The state after load_data: no run has happened, the widgets hold nothing.
Init ==
    /\ df \in Frames
    /\ plan_types = {} /\ meal_types = {} /\ price_slider = <<0, 0>>
    /\ filtered = NotComputed
    /\ kpi = NotComputed /\ by_month = NotComputed
    /\ meal_freq_counts = NotComputed /\ top10 = NotComputed
    /\ cohort = NotComputed /\ revenue_by_plan = NotComputed
    /\ plan_freq = NotComputed /\ rev_by_dur = NotComputed
    /\ pivot2 = NotComputed
    /\ err = "none"

(***************************************************************************)
(* The sections of the script, each writing the variables it assigns.      *)
(***************************************************************************)
Sidebar(pts, mts, ps) ==
    /\ plan_types' = pts
    /\ meal_types' = mts
    /\ price_slider' = ps

MacroTab(f) ==
    /\ kpi' = Computed(Kpi(f))
    /\ by_month' = Computed(ByMonth(f))
    /\ meal_freq_counts' = Computed(ValueCounts(f, "Meal_Frequency"))

Top10Section(f) ==
    top10' = IF Top10(f) = Raised("KeyError") THEN Raised("KeyError")
             ELSE Computed(Top10(f))

\* Variant: the cohort table grouped from the filtered frame.
CohortSectionFiltered ==
    cohort' = Computed(Cohort(Filter(df, plan_types', meal_types', price_slider')))

CohortSection ==
    cohort' = Computed(Cohort(df))

\* Lines 208-296; line 237 adds the Duration_Category column to filtered.
PlanRevenueTab(f, obs) ==
    /\ revenue_by_plan' = Computed(RevenueByPlan(f))
    /\ plan_freq' = Computed(Crosstab(f, "Plan_Type", "Meal_Frequency"))
    /\ filtered' = Computed(WithDurationCategory(f))
    /\ rev_by_dur' = Computed(RevByDur(WithDurationCategory(f), obs))
    /\ pivot2' = Computed(PivotCount(f, "Plan_Type", "Meal_Frequency", 0))

(***************************************************************************)
(* One run of the script, top to bottom, as Streamlit runs it on every     *)
(* widget change.  A raised exception ends the run: the statements after   *)
(* it are not executed.                                                    *)
(***************************************************************************)
FirstRun == filtered = NotComputed /\ err = "none"

Rerun ==
    /\ df' = df
    /\ IF df = <<>>
       THEN \* line 37: int() of the NaN minimum of an empty column
            /\ err' = "ValueError"
            /\ plan_types' = {} /\ meal_types' = {}
            /\ UNCHANGED price_slider
            /\ filtered' = NotComputed
            /\ kpi' = NotComputed /\ by_month' = NotComputed
            /\ meal_freq_counts' = NotComputed /\ top10' = NotComputed
            /\ cohort' = NotComputed /\ revenue_by_plan' = NotComputed
            /\ plan_freq' = NotComputed /\ rev_by_dur' = NotComputed
            /\ pivot2' = NotComputed
       ELSE \E w \in IF FirstRun THEN {Defaults(df)}
                     ELSE WidgetStates(Unique(df, "Plan_Type"),
                                       Unique(df, "Meal_Frequency"),
                                       SliderRanges(df)) :
                LET f == Filter(df, w[1], w[2], w[3])
                IN  /\ Sidebar(w[1], w[2], w[3])
                    /\ MacroTab(f)
                    /\ Top10Section(f)
                    /\ IF Top10(f) = Raised("KeyError")
                       THEN /\ err' = "KeyError"
                            /\ filtered' = Computed(f)
                            /\ cohort' = NotComputed
                            /\ revenue_by_plan' = NotComputed
                            /\ plan_freq' = NotComputed
                            /\ rev_by_dur' = NotComputed
                            /\ pivot2' = NotComputed
                       ELSE /\ err' = "none"
                            /\ CohortSection
                            /\ PlanRevenueTab(f, observed)

(***************************************************************************)
(* The filter expression and the view expressions applied to a frame and   *)
(* criteria, each expression evaluated on its own: the criteria range over *)
(* every selection of plan types and meal frequencies and every pair of    *)
(* price bounds, ordered or not.                                           *)
(***************************************************************************)
ApplyViews ==
    \E w \in WidgetStates(PlanTypes, MealFrequencies, PriceBounds \X PriceBounds) :
        LET f == Filter(df, w[1], w[2], w[3])
        IN  /\ Sidebar(w[1], w[2], w[3])
            /\ MacroTab(f)
            /\ Top10Section(f)
            /\ CohortSection
            /\ PlanRevenueTab(f, observed)
            /\ UNCHANGED err

\* Variant: the duration column written to the full frame as well.
EvalViewsInPlace ==
    /\ df' = WithDurationCategory(df)
    /\ ApplyViews

EvalViews ==
    /\ df' = df
    /\ ApplyViews

Next == Rerun
Spec == Init /\ [][Next]_vars

NextViews == EvalViews
SpecViews == Init /\ [][NextViews]_vars

(***************************************************************************)
(* Vocabulary of the properties.                                           *)
(***************************************************************************)
HasRun == filtered /= NotComputed

\* A row without the column the duration step adds.
Base(r) == [c \in DOMAIN r \ {"Duration_Category"} |-> r[c]]

\* The criteria predicate of a record.
Passes(r) ==
    /\ r.Plan_Type \in plan_types
    /\ r.Meal_Frequency \in meal_types
    /\ price_slider[1] <= r.Total_Price
    /\ r.Total_Price <= price_slider[2]

Kept == {i \in DOMAIN df : Passes(df[i])}

\* The position in df of the k-th kept record.
KeptAt(k) == CHOOSE i \in Kept : Cardinality({j \in Kept : j <= i}) = k

RECURSIVE SumOver(_, _)
SumOver(fn, S) ==
    IF S = {} THEN 0
    ELSE LET x == CHOOSE y \in S : TRUE IN fn[x] + SumOver(fn, S \ {x})

RECURSIVE SumField(_, _)
SumField(table, col) ==
    IF table = <<>> THEN 0 ELSE Head(table)[col] + SumField(Tail(table), col)

\* C1: the filtered set is the order-preserving subsequence of the full set
\* made of exactly the records whose plan type and meal frequency are
\* allowed and whose price lies in [min_price, max_price], bounds included;
\* it is never longer than the full set.
C1_FilterIsSubsequence ==
    HasRun =>
        /\ Len(filtered.value) = Cardinality(Kept)
        /\ Len(filtered.value) <= Len(df)
        /\ \A k \in DOMAIN filtered.value :
               Base(filtered.value[k]) = df[KeptAt(k)]

\* A record priced at a bound is kept, another record is left out.
C1_Witness ==
    /\ HasRun
    /\ Len(df) = 2 /\ Len(filtered.value) = 1
    /\ filtered.value[1].Total_Price = price_slider[2]
    /\ price_slider[1] = price_slider[2]

\* The month of the earliest start date of customer c in the full set.
FirstMonth(c) ==
    LET dates == {df[i].Start_Date : i \in {j \in DOMAIN df : df[j].Customer_ID = c}}
    IN  ToPeriodM(CHOOSE d \in dates : \A e \in dates : ~DateLess(e, d))

CohortCounts ==
    cohort /= NotComputed =>
        LET customers == {df[i].Customer_ID : i \in DOMAIN df}
            table == cohort.value
        IN  /\ \A c \in customers :
                   Cardinality({i \in DOMAIN table :
                                    table[i].CohortMonth = FirstMonth(c)}) = 1
            /\ \A i \in DOMAIN table :
                   table[i].New_Customers =
                       Cardinality({c \in customers : FirstMonth(c) = table[i].CohortMonth})
            /\ SumField(table, "New_Customers") = Cardinality(customers)

C3_FullSetUnchanged ==
    [][/\ df' = df
       /\ (HasRun /\ plan_types' = plan_types /\ meal_types' = meal_types
                  /\ price_slider' = price_slider) => filtered' = filtered]_vars

\* The filtered records carry the duration column, the full set does not.
C3_Witness ==
    /\ HasRun
    /\ filtered.value /= <<>>
    /\ \A i \in DOMAIN filtered.value :
           "Duration_Category" \in DOMAIN filtered.value[i]
    /\ \A j \in DOMAIN df : "Duration_Category" \notin DOMAIN df[j]

\* C4: with no plan type selected on a non-empty dataset the filtered set is
\* empty and every view completes with a zero or empty result, none with an
\* error.
C4_EmptySelectionViews ==
    (HasRun /\ df /= <<>> /\ plan_types = {}) =>
        /\ filtered.value = <<>>
        /\ err = "none"
        /\ kpi = Computed([subscribers |-> 0, revenue |-> 0, mean |-> [nan |-> TRUE]])
        /\ by_month = Computed(<<>>)
        /\ meal_freq_counts = Computed(<<>>)
        /\ top10 = Computed(<<>>)
        /\ revenue_by_plan = Computed(<<>>)
        /\ plan_freq = Computed(<<>>)
        /\ rev_by_dur /= NotComputed
        /\ \A c \in DOMAIN rev_by_dur.value : rev_by_dur.value[c] = 0
        /\ pivot2 = Computed(<<>>)

\* C5: the top-10 ranking is a list sorted non-increasing by summed spend;
\* when there are at most 10 groups it holds every (customer_id,
\* customer_name) group of the filtered set exactly once.
C5_Top10Ranking ==
    HasRun =>
        /\ top10 /= NotComputed
        /\ top10 /= Raised("KeyError")
        /\ \A i, j \in DOMAIN top10.value :
               i < j => top10.value[i].Total_Spend >= top10.value[j].Total_Spend
        /\ LET groups == {<<filtered.value[i].Customer_ID, filtered.value[i].Customer_Name>> :
                              i \in DOMAIN filtered.value}
           IN  TopN >= Cardinality(groups) =>
                   /\ Len(top10.value) = Cardinality(groups)
                   /\ \A g \in groups :
                          Cardinality({i \in DOMAIN top10.value :
                              <<top10.value[i].Customer_ID, top10.value[i].Customer_Name>> = g}) = 1

C7_OutOfRangeBucketed ==
    HasRun =>
        /\ \A i \in DOMAIN filtered.value :
               (filtered.value[i].Duration_Days >= 100 \/ filtered.value[i].Duration_Days < 0)
                   => filtered.value[i].Duration_Category = "unbucketed"
        /\ rev_by_dur /= NotComputed
        /\ SumOver(rev_by_dur.value, DOMAIN rev_by_dur.value)
               = SumField(filtered.value, "Total_Price")

\* A count matrix over the plan types and meal frequencies of the filtered set.
DenseCounts(matrix) ==
    LET f == filtered.value
    IN  /\ DOMAIN matrix = {f[i].Plan_Type : i \in DOMAIN f}
                               \X {f[i].Meal_Frequency : i \in DOMAIN f}
        /\ \A cell \in DOMAIN matrix :
               matrix[cell] = Cardinality({i \in DOMAIN f :
                   f[i].Plan_Type = cell[1] /\ f[i].Meal_Frequency = cell[2]})
        /\ SumOver(matrix, DOMAIN matrix) = Len(f)

C10_MonthlySeries ==
    by_month /= NotComputed =>
        LET series == by_month.value
            f == filtered.value
        IN  /\ {series[i].Month : i \in DOMAIN series} = {f[j].Month : j \in DOMAIN f}
            /\ Len(series) = Cardinality({f[j].Month : j \in DOMAIN f})
            /\ \A i \in DOMAIN series :
                   LET rows == {j \in DOMAIN f : f[j].Month = series[i].Month}
                   IN  /\ series[i].Unique_Customers =
                              Cardinality({f[j].Customer_ID : j \in rows})
                       /\ series[i].Total_Revenue =
                              SumField(SelectSeq(f, LAMBDA r : r.Month = series[i].Month),
                                       "Total_Price")
            /\ \A i, j \in DOMAIN series :
                   i < j => StrLess(series[i].Month, series[j].Month)

\* Two months, the later one first in the data.
C10_Witness ==
    /\ by_month /= NotComputed
    /\ Len(by_month.value) = 2
    /\ StrLess(filtered.value[2].Month, filtered.value[1].Month)

====
